---- MODULE Spec2Model ----
(***************************************************************************)
(* DNG2DATA: the region model (processing/regions.py) and the statistics   *)
(* engine (processing/analysis.py).                                        *)
(*                                                                         *)
(* A pixel is the pair <<row, column>>.  An array is a record              *)
(*   [shape |-> <<H, W>> | <<H, W, C>> | <<N>>, data |-> <<row,col>> -> samples]*)
(* where the samples of a pixel are the sequence of its C channel values   *)
(* (one value for a 2-D sensor array).  A mean is the exact fraction       *)
(* <<sum, count>>; a standard deviation is kept as its square, the         *)
(* fraction <<count * sumsq - sum^2, count^2>>.                            *)
(***************************************************************************)
EXTENDS Integers, Sequences, FiniteSets, TLC

VARIABLES
    img,        \* the array handed to the statistics engine
    regions,    \* the caller's Region list
    op,         \* the operation that ran last
    arg,        \* index in regions of the Region it ran on (0: the whole list)
    out,        \* what the operation returned or raised
    sel,        \* the pixels the operation selected (the provenance of flat / data+mask)
    file,       \* the template file's JSON document
    gui,        \* the main window's session fields (gui/main_window.py)
    issued,     \* history: every id the session has given to a Region so far
    folder,     \* the batch folder: its listing (in listing order) and its files
    decoded,    \* history: the images the batch collector handed to load_dng, in order
    excel,      \* the workbook at the export path
    settings,   \* the caller's load_settings argument of the batch run
    used        \* history: the keyword arguments of each load_dng call, in order

vars == <<img, regions, op, arg, out, sel, file, gui, issued, folder, decoded, excel,
          settings, used>>

\* the fields a component leaves alone
session == <<gui, issued>>
batch == <<folder, decoded, excel, settings, used>>

\* ---------------------------------------------------------------- bounds
MaxDim == 2
MaxCoord == 2
MaxSize == 2
MaxRegions == 2

\* ---------------------------------------------------------------- helpers
Min(a, b) == IF a < b THEN a ELSE b
Max(a, b) == IF a > b THEN a ELSE b

RECURSIVE SumOver(_, _)
SumOver(S, f) ==
    IF S = {} THEN 0
    ELSE LET e == CHOOSE e \in S : TRUE IN f[e] + SumOver(S \ {e}, f)

RECURSIVE SumSeq(_)
SumSeq(s) == IF s = <<>> THEN 0 ELSE Head(s) + SumSeq(Tail(s))

\* dict.get(key, default)
Get(params, key, default) ==
    IF key \in DOMAIN params THEN params[key] ELSE default

\* a[start:stop] on an axis of length n: the half-open index range <<lo, hi>>.
\* A negative bound counts from the end of the axis, then both are clipped.
PySlice(start, stop, n) ==
    LET norm(k) == IF k < 0 THEN Max(k + n, 0) ELSE Min(k, n)
        lo == norm(start)
        hi == norm(stop)
    IN  <<lo, Max(lo, hi)>>

\* the absolute indices of a slice, in order
SliceIdx(start, stop, n) ==
    LET s == PySlice(start, stop, n)
    IN  [k \in 1..(s[2] - s[1]) |-> s[1] + k - 1]

SeqRange(s) == {s[k] : k \in DOMAIN s}

\* ---------------------------------------------------------------- outcomes
Raise(exc) == [kind |-> "error", exc |-> exc]
None == [kind |-> "none"]
NoCall == [kind |-> "nocall"]

\* ---------------------------------------------------------------- JSON
\* A JSON document is a tagged value: num, str, arr (sequence) or obj (a
\* function from key strings to documents).
JNum(n) == [t |-> "num", v |-> n]
JStr(s) == [t |-> "str", v |-> s]
JArr(s) == [t |-> "arr", v |-> s]
JObj(f) == [t |-> "obj", v |-> f]

\* json.dump of a list of integer pairs (lists and tuples both become arrays)
JPoints(points) ==
    JArr([k \in DOMAIN points |->
            JArr(<<JNum(points[k][1]), JNum(points[k][2])>>)])

\* json.dump / json.dumps of a params dict
JParams(params) ==
    JObj([k \in DOMAIN params |->
            IF k = "points" THEN JPoints(params[k]) ELSE JNum(params[k])])

\* ---------------------------------------------------------------- masks
\* ImageDraw.polygon(points, outline=1, fill=1) on the pixel lattice: a pixel
\* is set when it lies on an edge of the closed outline or inside it (even-odd
\* crossing count).  The drawing is clipped to the image by _polygon_mask.
OnSegment(a, b, px, py) ==
    /\ (b[1] - a[1]) * (py - a[2]) = (b[2] - a[2]) * (px - a[1])
    /\ Min(a[1], b[1]) <= px /\ px <= Max(a[1], b[1])
    /\ Min(a[2], b[2]) <= py /\ py <= Max(a[2], b[2])

Crosses(a, b, px, py) ==
    /\ (a[2] > py) # (b[2] > py)
    /\ IF b[2] > a[2]
       THEN (px - a[1]) * (b[2] - a[2]) < (py - a[2]) * (b[1] - a[1])
       ELSE (px - a[1]) * (b[2] - a[2]) > (py - a[2]) * (b[1] - a[1])

PolygonCovers(points, px, py) ==
    LET n == Len(points)
        nxt(k) == IF k = n THEN 1 ELSE k + 1
    IN  \/ \E k \in 1..n : OnSegment(points[k], points[nxt(k)], px, py)
        \/ Cardinality({k \in 1..n :
                Crosses(points[k], points[nxt(k)], px, py)}) % 2 = 1

\* _polygon_mask(points, shape): `h, w = shape` fails unless shape has two
\* entries, and the drawing rejects a coordinate list of fewer than two
\* points; otherwise a boolean h x w grid, given by its true positions <<i, j>>.
_polygon_mask(points, shape) ==
    IF Len(shape) # 2 THEN Raise("ValueError")
    ELSE IF Len(points) < 2 THEN Raise("TypeError")
    ELSE [kind |-> "ok", h |-> shape[1], w |-> shape[2],
          on |-> {p \in (0..(shape[1] - 1)) \X (0..(shape[2] - 1)) :
                    PolygonCovers(points, p[2], p[1])}]

\* ---------------------------------------------------------------- RGB path
\* the full-image circle mask: (x_indices - cx)^2 + (y_indices - cy)^2 <= r^2
CircleMaskRgb_OpenDisk(H, W, cx, cy, r) ==
    {p \in (0..(H - 1)) \X (0..(W - 1)) :
        (p[2] - cx) * (p[2] - cx) + (p[1] - cy) * (p[1] - cy) < r * r}

CircleMaskRgb(H, W, cx, cy, r) ==
    {p \in (0..(H - 1)) \X (0..(W - 1)) :
        (p[2] - cx) * (p[2] - cx) + (p[1] - cy) * (p[1] - cy) <= r * r}

\* The pixels compute_region_stats gathers in flat, or the error raised
\* while gathering them.
RgbSelect(H, W, region) ==
    IF region.shape = "rect" THEN
        LET x == Get(region.params, "x", 0)
            y == Get(region.params, "y", 0)
            w == Get(region.params, "w", 0)
            h == Get(region.params, "h", 0)
        IN  [kind |-> "ok",
             pixels |-> SeqRange(SliceIdx(y, y + h, H))
                            \X SeqRange(SliceIdx(x, x + w, W))]
    ELSE IF region.shape = "circle" THEN
        LET cx == Get(region.params, "cx", 0)
            cy == Get(region.params, "cy", 0)
            r == Get(region.params, "r", 0)
        IN  [kind |-> "ok", pixels |-> CircleMaskRgb(H, W, cx, cy, r)]
    ELSE IF region.shape = "polygon" THEN
        LET points == Get(region.params, "points", <<>>)
            mask == _polygon_mask(points, <<H, W>>)
        IN  IF mask.kind = "error" THEN mask
            ELSE [kind |-> "ok", pixels |-> mask.on]
    ELSE Raise("ValueError")

\* mean and squared std of one channel over the selected pixels
ChannelMean(a, pixels, c) ==
    <<SumOver(pixels, [p \in pixels |-> a.data[p][c]]), Cardinality(pixels)>>

ChannelStdSq(a, pixels, c) ==
    LET n == Cardinality(pixels)
        s == SumOver(pixels, [p \in pixels |-> a.data[p][c]])
        q == SumOver(pixels, [p \in pixels |-> a.data[p][c] * a.data[p][c]])
    IN  <<n * q - s * s, n * n>>

StatsRow(a, region, pixels) ==
    [kind |-> "row",
     row |-> ("ID" :> region.id
              @@ "Shape Type" :> region.shape
              @@ "Parameters" :> JParams(region.params)
              @@ "Mean R" :> ChannelMean(a, pixels, 1)
              @@ "Mean G" :> ChannelMean(a, pixels, 2)
              @@ "Mean B" :> ChannelMean(a, pixels, 3)
              @@ "Std R" :> ChannelStdSq(a, pixels, 1)
              @@ "Std G" :> ChannelStdSq(a, pixels, 2)
              @@ "Std B" :> ChannelStdSq(a, pixels, 3))]

\* flat.size == 0, flat being an n x 3 array
EmptyFlat(pixels) == Cardinality(pixels) * 3 = 0

compute_region_stats(a, region) ==
    IF Len(a.shape) # 3 \/ a.shape[3] # 3 THEN Raise("ValueError")
    ELSE LET s == RgbSelect(a.shape[1], a.shape[2], region)
         IN  IF s.kind = "error" THEN s
             ELSE IF EmptyFlat(s.pixels) THEN None
             ELSE StatsRow(a, region, s.pixels)

\* measure_regions keeps a result when `if stats:` holds: a non-empty dict
Truthy_NonZeroMean(stats) ==
    stats.kind = "row" /\ stats.row["Mean R"][1] # 0

Truthy(stats) == stats.kind = "row"

Columns ==
    <<"ID", "Shape Type", "Parameters", "Mean R", "Mean G", "Mean B",
      "Std R", "Std G", "Std B">>

RECURSIVE MeasureRows(_, _, _)
MeasureRows(a, regs, k) ==
    IF k > Len(regs) THEN [kind |-> "ok", rows |-> <<>>]
    ELSE LET stats == compute_region_stats(a, regs[k])
         IN  IF stats.kind = "error" THEN stats
             ELSE LET rest == MeasureRows(a, regs, k + 1)
                  IN  IF rest.kind = "error" THEN rest
                      ELSE [kind |-> "ok",
                            rows |-> IF Truthy(stats)
                                     THEN <<stats.row>> \o rest.rows
                                     ELSE rest.rows]

measure_regions(a, regs) ==
    LET r == MeasureRows(a, regs, 1)
    IN  IF r.kind = "error" THEN r
        ELSE [kind |-> "frame", columns |-> Columns, rows |-> r.rows]

\* ---------------------------------------------------------------- raw path
NoMask == [present |-> FALSE]

\* (data, mask): data is the view img[rows, cols], given by the absolute row
\* and column indices it covers; mask is None or a boolean grid of its own
\* shape h x w, given by its true positions.
RawView(rows, cols, mask) ==
    [kind |-> "ok", rows |-> rows, cols |-> cols, mask |-> mask]

\* the circle's bounding box clipped to the array: y0, y1, x0, x1
CircleBox_NoPlusOne(cx, cy, r, H, W) ==
    [y0 |-> Max(cy - r, 0), y1 |-> Min(cy + r, H),
     x0 |-> Max(cx - r, 0), x1 |-> Min(cx + r, W)]

CircleBox(cx, cy, r, H, W) ==
    [y0 |-> Max(cy - r, 0), y1 |-> Min(cy + r + 1, H),
     x0 |-> Max(cx - r, 0), x1 |-> Min(cx + r + 1, W)]

\* the mask over np.ogrid[y0:y1, x0:x1] (an empty axis when the bounds cross)
CircleMaskRaw(box, cx, cy, r) ==
    LET mh == Max(box.y1 - box.y0, 0)
        mw == Max(box.x1 - box.x0, 0)
    IN  [present |-> TRUE, h |-> mh, w |-> mw,
         on |-> {p \in (0..(mh - 1)) \X (0..(mw - 1)) :
                    (box.x0 + p[2] - cx) * (box.x0 + p[2] - cx)
                    + (box.y0 + p[1] - cy) * (box.y0 + p[1] - cy) <= r * r}]

extract_raw_region(a, region) ==
    LET nd == Len(a.shape)
        H == a.shape[1]
        W == IF nd >= 2 THEN a.shape[2] ELSE 0
    IN
    IF region.shape = "rect" THEN
        LET x == Get(region.params, "x", 0)
            y == Get(region.params, "y", 0)
            w == Get(region.params, "w", 0)
            h == Get(region.params, "h", 0)
        IN  IF nd < 2 THEN Raise("IndexError")
            ELSE RawView(SliceIdx(y, y + h, H), SliceIdx(x, x + w, W), NoMask)
    ELSE IF region.shape = "circle" THEN
        LET cx == Get(region.params, "cx", 0)
            cy == Get(region.params, "cy", 0)
            r == Get(region.params, "r", 0)
            box == CircleBox(cx, cy, r, H, W)
        IN  IF nd < 2 THEN Raise("IndexError")
            ELSE RawView(SliceIdx(box.y0, box.y1, H), SliceIdx(box.x0, box.x1, W),
                         CircleMaskRaw(box, cx, cy, r))
    ELSE IF region.shape = "polygon" THEN
        LET points == Get(region.params, "points", <<>>)
        IN  IF points = <<>> THEN RawView(<<>>, <<>>, NoMask)
            ELSE IF nd < 2 THEN Raise("IndexError")
            ELSE
            LET xs == {points[k][1] : k \in DOMAIN points}
                ys == {points[k][2] : k \in DOMAIN points}
                minx == CHOOSE v \in xs : \A u \in xs : v <= u
                maxx == CHOOSE v \in xs : \A u \in xs : v >= u
                miny == CHOOSE v \in ys : \A u \in ys : v <= u
                maxy == CHOOSE v \in ys : \A u \in ys : v >= u
                x0 == Max(minx, 0)
                x1 == Min(maxx + 1, W)
                y0 == Max(miny, 0)
                y1 == Min(maxy + 1, H)
                rows == SliceIdx(y0, y1, H)
                cols == SliceIdx(x0, x1, W)
                shifted == [k \in DOMAIN points |->
                                <<points[k][1] - x0, points[k][2] - y0>>]
                subshape == <<Len(rows), Len(cols)>> \o SubSeq(a.shape, 3, nd)
                mask == _polygon_mask(shifted, subshape)
            IN  IF mask.kind = "error" THEN mask
                ELSE RawView(rows, cols,
                        [present |-> TRUE, h |-> mask.h, w |-> mask.w,
                         on |-> mask.on])
    ELSE Raise("ValueError")

\* The sensor pixels a (data, mask) pair marks as included: the whole view
\* without a mask, else the view positions whose mask entry is true (data and
\* mask are read side by side, position by position).
RawIncluded(e) ==
    IF ~e.mask.present THEN SeqRange(e.rows) \X SeqRange(e.cols)
    ELSE {<<e.rows[p[1] + 1], e.cols[p[2] + 1]>> :
            p \in {q \in e.mask.on : q[1] < Len(e.rows) /\ q[2] < Len(e.cols)}}

NaN == <<0, 0>>

\* v[r0::2, c0::2] of a grid of h x w positions
Strided_Swapped(h, w, r0, c0) ==
    {p \in (0..(h - 1)) \X (0..(w - 1)) : p[1] % 2 = c0 /\ p[2] % 2 = r0}

Strided(h, w, r0, c0) ==
    {p \in (0..(h - 1)) \X (0..(w - 1)) : p[1] % 2 = r0 /\ p[2] % 2 = c0}

\* number of indices r0, r0 + 2, ... below n
StrideLen(n, r0) == IF n <= r0 THEN 0 ELSE (n - r0 + 1) \div 2

\* mean over every sample of the given view positions (NaN over none)
PlaneMean_Sum(a, e, pos) ==
    IF pos = {} THEN NaN
    ELSE LET px(p) == a.data[<<e.rows[p[1] + 1], e.cols[p[2] + 1]>>]
         IN  <<SumOver(pos, [p \in pos |-> SumSeq(px(p))]), 1>>

PlaneMean(a, e, pos) ==
    IF pos = {} THEN NaN
    ELSE LET px(p) == a.data[<<e.rows[p[1] + 1], e.cols[p[2] + 1]>>]
         IN  <<SumOver(pos, [p \in pos |-> SumSeq(px(p))]),
               SumOver(pos, [p \in pos |-> Len(px(p))])>>

\* one Bayer plane: data[r0::2, c0::2], with mask[r0::2, c0::2] applied when
\* there is a mask; a boolean index of another shape than the plane raises.
BayerPlane(a, e, r0, c0) ==
    LET h == Len(e.rows)
        w == Len(e.cols)
        plane == Strided(h, w, r0, c0)
    IN  IF ~e.mask.present THEN [kind |-> "ok", mean |-> PlaneMean(a, e, plane)]
        ELSE IF \/ StrideLen(h, r0) # StrideLen(e.mask.h, r0)
                \/ StrideLen(w, c0) # StrideLen(e.mask.w, c0)
             THEN Raise("IndexError")
             ELSE [kind |-> "ok",
                   mean |-> PlaneMean(a, e, plane \cap e.mask.on)]

average_raw_region(a, region) ==
    LET e == extract_raw_region(a, region)
    IN  IF e.kind = "error" THEN e
        ELSE IF Len(e.rows) * Len(e.cols) = 0 THEN None
        ELSE LET r == BayerPlane(a, e, 0, 0)
                 g1 == BayerPlane(a, e, 0, 1)
                 g2 == BayerPlane(a, e, 1, 0)
                 b == BayerPlane(a, e, 1, 1)
             IN  IF r.kind = "error" THEN r
                 ELSE IF g1.kind = "error" THEN g1
                 ELSE IF g2.kind = "error" THEN g2
                 ELSE IF b.kind = "error" THEN b
                 ELSE [kind |-> "planes",
                       planes |-> [R |-> r.mean, G1 |-> g1.mean,
                                   G2 |-> g2.mean, B |-> b.mean]]

\* ---------------------------------------------------------------- what a call leaves of the Regions
\* the params keys the engine looks up for a shape (region.params.get)
ParamsRead(region) ==
    IF region.shape = "rect" THEN {"x", "y", "w", "h"}
    ELSE IF region.shape = "circle" THEN {"cx", "cy", "r"}
    ELSE IF region.shape = "polygon" THEN {"points"}
    ELSE {}

\* the Region after the engine read its id, shape and params:
\* region.params.get(key, default) returns the value and stores nothing
Read_Popped(region) ==
    [region EXCEPT !.params = [k \in DOMAIN @ \ ParamsRead(region) |-> @[k]]]

Read(region) == region

\* compute_region_stats raises on an array that is not HxWx3 before it looks
\* at the Region
StatsRead(a, region) ==
    IF Len(a.shape) # 3 \/ a.shape[3] # 3 THEN region ELSE Read(region)

\* measure_regions: the loop reads the Regions in list order and is left at
\* the first one compute_region_stats raises on
RECURSIVE MeasureRead(_, _)
MeasureRead(a, regs) ==
    IF regs = <<>> THEN <<>>
    ELSE IF compute_region_stats(a, regs[1]).kind = "error"
         THEN <<StatsRead(a, regs[1])>> \o Tail(regs)
    ELSE <<StatsRead(a, regs[1])>> \o MeasureRead(a, Tail(regs))

\* ---------------------------------------------------------------- inputs
Val(kind, y, x, c) == IF kind = "zero" THEN 0 ELSE 10 * y + 3 * x + c

Array2(H, W, kind) ==
    [shape |-> <<H, W>>,
     data |-> [p \in (0..(H - 1)) \X (0..(W - 1)) |-> <<Val(kind, p[1], p[2], 1)>>]]

Array3(H, W, C, kind) ==
    [shape |-> <<H, W, C>>,
     data |-> [p \in (0..(H - 1)) \X (0..(W - 1)) |->
                    [c \in 1..C |-> Val(kind, p[1], p[2], c)]]]

Array1(N, kind) ==
    [shape |-> <<N>>, data |-> [p \in {<<i>> : i \in 0..(N - 1)} |-> <<Val(kind, p[1], 0, 1)>>]]

Extents == (1..MaxDim) \X (1..MaxDim)

Arrays ==
    {Array3(e[1], e[2], 3, k) : e \in Extents, k \in {"zero", "ramp"}}
    \cup {Array2(e[1], e[2], "ramp") : e \in Extents}
    \cup {Array3(MaxDim, MaxDim, 4, "ramp"), Array1(MaxDim, "ramp")}

Coords == (-MaxCoord)..MaxCoord
Sizes == (-1)..MaxSize

Region(id, shape, params) == [id |-> id, shape |-> shape, params |-> params]

Rects ==
    {Region(1, "rect", [x |-> x, y |-> y, w |-> w, h |-> h]) :
        x \in Coords, y \in Coords, w \in Sizes, h \in Sizes}

Circles ==
    {Region(1, "circle", [cx |-> cx, cy |-> cy, r |-> r]) :
        cx \in Coords, cy \in Coords, r \in Sizes}

\* vertex lists of 0, 1 and 2 points and right triangles, at every offset
PointLists ==
    {<<>>}
    \cup {<<<<dx, dy>>>> : dx \in Coords, dy \in Coords}
    \cup {<<<<dx, dy>>, <<dx + 1, dy + 1>>>> : dx \in Coords, dy \in Coords}
    \cup {<<<<dx, dy>>, <<dx + s, dy>>, <<dx, dy + s>>>> :
            dx \in Coords, dy \in Coords, s \in 1..MaxSize}

Polygons == {Region(1, "polygon", [points |-> pts]) : pts \in PointLists}

Unsupported == Region(1, "ellipse", [cx |-> 0, cy |-> 0, r |-> 1])

Regions == Rects \cup Circles \cup Polygons \cup {Unsupported}

\* the Regions that longer lists are built from
ListRegions ==
    {Region(1, "rect", [x |-> 0, y |-> 0, w |-> 1, h |-> 1]),
     Region(1, "rect", [x |-> MaxCoord + 1, y |-> 0, w |-> 1, h |-> 1]),
     Region(1, "circle", [cx |-> 0, cy |-> 0, r |-> 0]),
     Region(1, "polygon", [points |-> <<<<0, 0>>, <<1, 0>>, <<0, 1>>>>]),
     Unsupported}

Numbered(s) == [k \in DOMAIN s |-> [s[k] EXCEPT !.id = k]]

RegionLists ==
    {<<>>}
    \cup {<<r>> : r \in Regions}
    \cup {Numbered(s) : s \in UNION {[1..n -> ListRegions] : n \in 2..MaxRegions}}

NoFile == [t |-> "absent"]

\* no main window, no batch folder
NoSession == [kind |-> "nosession"]
NoFolder == [listing |-> <<>>, files |-> <<>>]

\* load_settings=None; a settings dictionary is the set of its <<key, value>> items
NoSettings == [t |-> "none"]
Dict(items) == [t |-> "dict", items |-> items]

\* ---------------------------------------------------------------- statistics engine
Init ==
    /\ img \in Arrays
    /\ regions \in RegionLists
    /\ op = "init"
    /\ arg = 0
    /\ out = NoCall
    /\ sel = {}
    /\ file = NoFile
    /\ gui = NoSession
    /\ issued = {}
    /\ folder = NoFolder
    /\ decoded = <<>>
    /\ settings = NoSettings
    /\ used = <<>>
    /\ excel = NoFile

ComputeRegionStats ==
    \E i \in 1..Len(regions) :
        /\ op' = "compute_region_stats"
        /\ arg' = i
        /\ out' = compute_region_stats(img, regions[i])
        /\ sel' = IF out'.kind = "row"
                  THEN RgbSelect(img.shape[1], img.shape[2], regions[i]).pixels
                  ELSE {}
        /\ regions' = [regions EXCEPT ![i] = StatsRead(img, @)]
        /\ UNCHANGED <<img, file, session, batch>>

ExtractRawRegion ==
    \E i \in 1..Len(regions) :
        /\ op' = "extract_raw_region"
        /\ arg' = i
        /\ out' = extract_raw_region(img, regions[i])
        /\ sel' = IF out'.kind = "ok" THEN RawIncluded(out') ELSE {}
        /\ regions' = [regions EXCEPT ![i] = Read(@)]
        /\ UNCHANGED <<img, file, session, batch>>

AverageRawRegion ==
    \E i \in 1..Len(regions) :
        /\ op' = "average_raw_region"
        /\ arg' = i
        /\ out' = average_raw_region(img, regions[i])
        /\ sel' = IF out'.kind = "planes"
                  THEN RawIncluded(extract_raw_region(img, regions[i]))
                  ELSE {}
        /\ regions' = [regions EXCEPT ![i] = Read(@)]
        /\ UNCHANGED <<img, file, session, batch>>

MeasureRegions ==
    /\ op' = "measure_regions"
    /\ arg' = 0
    /\ out' = measure_regions(img, regions)
    /\ sel' = {}
    /\ regions' = MeasureRead(img, regions)
    /\ UNCHANGED <<img, file, session, batch>>

Next ==
    \/ ComputeRegionStats
    \/ ExtractRawRegion
    \/ AverageRawRegion
    \/ MeasureRegions

Spec == Init /\ [][Next]_vars

\* ---------------------------------------------------------------- templates
\* Region.to_dict
to_dict(r) == [id |-> r.id, shape |-> r.shape, params |-> r.params]

\* json.dump of one to_dict() dictionary
JRegionDict(d) ==
    JObj([id |-> JNum(d.id), shape |-> JStr(d.shape), params |-> JParams(d.params)])

save_template_Reversed(regs) ==
    JArr([k \in DOMAIN regs |-> JRegionDict(to_dict(regs[Len(regs) + 1 - k]))])

\* save_template: the document written to the file
save_template(regs) ==
    JArr([k \in DOMAIN regs |-> JRegionDict(to_dict(regs[k]))])

\* json.load: the Python value of a document (array -> list, object -> dict,
\* number -> int, string -> str); a float and null stay tagged
RECURSIVE Decode(_)
Decode(j) ==
    IF j.t \in {"num", "str"} THEN j.v
    ELSE IF j.t \in {"arr", "obj"} THEN [k \in DOMAIN j.v |-> Decode(j.v[k])]
    ELSE j

\* Region.from_dict on one element of the loaded data: data["id"],
\* data["shape"], data["params"], with no check of what they hold
from_dict(d) ==
    IF d.t # "obj" THEN Raise("TypeError")
    ELSE IF ~({"id", "shape", "params"} \subseteq DOMAIN d.v) THEN Raise("KeyError")
    ELSE [kind |-> "ok",
          value |-> Region(Decode(d.v["id"]), Decode(d.v["shape"]),
                           Decode(d.v["params"]))]

RECURSIVE FromDicts(_, _)
FromDicts(items, k) ==
    IF k > Len(items) THEN [kind |-> "ok", value |-> <<>>]
    ELSE LET r == from_dict(items[k])
         IN  IF r.kind = "error" THEN r
             ELSE LET rest == FromDicts(items, k + 1)
                  IN  IF rest.kind = "error" THEN rest
                      ELSE [kind |-> "ok", value |-> <<r.value>> \o rest.value]

\* load_template on the file's document: [Region.from_dict(d) for d in data].
\* Iterating an object yields its keys and iterating a string its characters
\* (from_dict then fails on the first); an empty one yields nothing.
load_template(doc) ==
    IF doc.t = "absent" THEN Raise("FileNotFoundError")
    ELSE IF doc.t = "invalid" THEN Raise("JSONDecodeError")
    ELSE IF doc.t = "arr" THEN FromDicts(doc.v, 1)
    ELSE IF doc.t = "obj" THEN
        IF DOMAIN doc.v = {} THEN [kind |-> "ok", value |-> <<>>]
        ELSE Raise("TypeError")
    ELSE IF doc.t = "str" THEN
        IF doc.v = "" THEN [kind |-> "ok", value |-> <<>>]
        ELSE Raise("TypeError")
    ELSE Raise("TypeError")

\* documents a template file may hold besides saved templates
GoodParams == JObj([x |-> JNum(0), y |-> JNum(0), w |-> JNum(1), h |-> JNum(1)])
GoodItem == JObj([id |-> JNum(1), shape |-> JStr("rect"), params |-> GoodParams])
JFloat == [t |-> "float", v |-> <<3, 2>>]
JNull == [t |-> "null"]

Payloads ==
    {[t |-> "invalid"], JNum(5), JStr("rect"), JStr(""), JNull, GoodItem,
     JObj(<<>>),
     JArr(<<JNum(1)>>), JArr(<<JStr("rect")>>), JArr(<<JArr(<<GoodItem>>)>>),
     JArr(<<GoodItem, JNum(1)>>),
     JArr(<<JObj([shape |-> JStr("rect"), params |-> GoodParams])>>),
     JArr(<<JObj([id |-> JNum(1), params |-> GoodParams])>>),
     JArr(<<JObj([id |-> JNum(1), shape |-> JStr("rect")])>>),
     JArr(<<GoodItem, JObj([id |-> JNum(2)])>>),
     JArr(<<JObj([id |-> JStr("a"), shape |-> JStr("rect"), params |-> GoodParams])>>),
     JArr(<<JObj([id |-> JFloat, shape |-> JStr("rect"), params |-> GoodParams])>>),
     JArr(<<JObj([id |-> JNull, shape |-> JStr("rect"), params |-> GoodParams])>>),
     JArr(<<JObj([id |-> JNum(1), shape |-> JStr("hexagon"), params |-> GoodParams])>>),
     JArr(<<JObj([id |-> JNum(1), shape |-> JNum(3), params |-> GoodParams])>>),
     JArr(<<JObj([id |-> JNum(1), shape |-> JStr("rect"), params |-> JNum(5)])>>),
     JArr(<<JObj([id |-> JNum(1), shape |-> JStr("rect"), params |-> JArr(<<>>)])>>),
     JArr(<<GoodItem, JObj([id |-> JNum(2), shape |-> JStr("rect"),
                             params |-> JStr("x")])>>)}

InitTemplate ==
    /\ img = Array1(1, "zero")
    /\ regions \in RegionLists
    /\ op = "init"
    /\ arg = 0
    /\ out = NoCall
    /\ sel = {}
    /\ file = NoFile
    /\ gui = NoSession
    /\ issued = {}
    /\ folder = NoFolder
    /\ decoded = <<>>
    /\ settings = NoSettings
    /\ used = <<>>
    /\ excel = NoFile

SaveTemplate ==
    /\ op' = "save_template"
    /\ file' = save_template(regions)
    /\ out' = None
    /\ UNCHANGED <<img, regions, arg, sel, session, batch>>

\* another program writes the template file
WriteFile ==
    \E doc \in Payloads :
        /\ op' = "write_file"
        /\ file' = doc
        /\ out' = NoCall
        /\ UNCHANGED <<img, regions, arg, sel, session, batch>>

LoadTemplate ==
    /\ op' = "load_template"
    /\ out' = load_template(file)
    /\ UNCHANGED <<img, regions, arg, sel, file, session, batch>>

NextTemplate ==
    \/ SaveTemplate
    \/ WriteFile
    \/ LoadTemplate

SpecTemplate == InitTemplate /\ [][NextTemplate]_vars

\* ---------------------------------------------------------------- properties
IsRgb(a) == Len(a.shape) = 3 /\ a.shape[3] = 3
Cur == regions[arg]
ImgH == img.shape[1]
ImgW == img.shape[2]
Shapes == {"rect", "circle", "polygon"}

\* a Region of the data model: w, h, r >= 0 and at least 3 vertices
ValidRegion(r) ==
    \/ r.shape = "rect" /\ r.params.w >= 0 /\ r.params.h >= 0
    \/ r.shape = "circle" /\ r.params.r >= 0
    \/ r.shape = "polygon" /\ Len(r.params.points) >= 3

NegativeSize(r) ==
    \/ r.shape = "rect" /\ (r.params.w < 0 \/ r.params.h < 0)
    \/ r.shape = "circle" /\ r.params.r < 0

\* the Region's bounding box does not meet the H x W image
Outside(r, H, W) ==
    \/ /\ r.shape = "rect"
       /\ \/ r.params.x + r.params.w <= 0 \/ r.params.x >= W
          \/ r.params.y + r.params.h <= 0 \/ r.params.y >= H
    \/ /\ r.shape = "circle"
       /\ \/ r.params.cx + r.params.r < 0 \/ r.params.cx - r.params.r >= W
          \/ r.params.cy + r.params.r < 0 \/ r.params.cy - r.params.r >= H
    \/ /\ r.shape = "polygon"
       /\ LET pts == r.params.points
          IN  \/ \A k \in DOMAIN pts : pts[k][1] < 0
              \/ \A k \in DOMAIN pts : pts[k][1] >= W
              \/ \A k \in DOMAIN pts : pts[k][2] < 0
              \/ \A k \in DOMAIN pts : pts[k][2] >= H

\* [y, y+h) x [x, x+w) intersected with [0, H) x [0, W)
RectIntersection(r, H, W) ==
    {p \in (0..(H - 1)) \X (0..(W - 1)) :
        /\ r.params.y <= p[1] /\ p[1] < r.params.y + r.params.h
        /\ r.params.x <= p[2] /\ p[2] < r.params.x + r.params.w}

\* C1: for a rect with w, h >= 0 at any integer position, the pixels measured
\* by compute_region_stats and the sub-array of extract_raw_region are exactly
\* the intersection of [y, y+h) x [x, x+w) with the image: out-of-range
\* coordinates are clamped, never wrapped around.
C1_RectIsClampedIntersection ==
    ( /\ arg > 0
      /\ Cur.shape = "rect" /\ Cur.params.w >= 0 /\ Cur.params.h >= 0
      /\ \/ op = "compute_region_stats" /\ out.kind \in {"row", "none"}
         \/ op = "extract_raw_region" /\ out.kind = "ok" )
    => sel = RectIntersection(Cur, ImgH, ImgW)

\* C2: a Region lying entirely outside the image, on any side, makes
\* compute_region_stats return None: no error and no row of means.
C2_OutsideGivesNone ==
    ( /\ op = "compute_region_stats" /\ IsRgb(img)
      /\ ValidRegion(Cur) /\ Outside(Cur, ImgH, ImgW) )
    => out = None

\* C3: for a circle with r >= 0 a pixel is included iff it is inside the image
\* and (px-cx)^2 + (py-cy)^2 <= r^2, on the RGB path and on the raw path; with
\* r = 0 that is the centre pixel when it is in bounds, else nothing.
C3_ClosedDisk ==
    ( /\ arg > 0
      /\ Cur.shape = "circle" /\ Cur.params.r >= 0
      /\ \/ op = "compute_region_stats" /\ out.kind \in {"row", "none"}
         \/ op = "extract_raw_region" /\ out.kind = "ok" )
    => LET cx == Cur.params.cx
           cy == Cur.params.cy
           r == Cur.params.r
           inImage == {p \in (0..(ImgH - 1)) \X (0..(ImgW - 1)) : TRUE}
       IN  /\ \A p \in inImage :
                p \in sel <=> (p[2] - cx) * (p[2] - cx)
                                + (p[1] - cy) * (p[1] - cy) <= r * r
           /\ sel \subseteq inImage
           /\ r = 0 => sel = {<<cy, cx>>} \cap inImage

C3_Witness ==
    /\ op = "extract_raw_region" /\ arg > 0
    /\ Cur.shape = "circle" /\ Cur.params.r = 1 /\ Cur.params.cx = -1
    /\ Len(img.shape) = 2
    /\ sel # {}

\* C4: for every Region of the data model and every image extent the RGB path
\* and the raw path select the same full-resolution pixels: what
\* compute_region_stats averages over H x W x 3 is what extract_raw_region
\* marks as included over an H x W sensor array.
C4_SamePixelsRgbAndRaw ==
    /\ ( /\ op = "compute_region_stats" /\ out.kind \in {"row", "none"}
         /\ ValidRegion(Cur) )
       => LET e == extract_raw_region(Array2(ImgH, ImgW, "ramp"), Cur)
          IN  e.kind = "ok" /\ sel = RawIncluded(e)
    /\ ( /\ op = "extract_raw_region" /\ out.kind = "ok"
         /\ Len(img.shape) = 2 /\ ValidRegion(Cur) )
       => LET s == RgbSelect(ImgH, ImgW, Cur)
          IN  s.kind = "ok" /\ sel = s.pixels

C4_Witness ==
    /\ op = "compute_region_stats" /\ out.kind = "row"
    /\ Cur.shape = "polygon" /\ Len(Cur.params.points) = 3
    /\ \E k \in 1..3 : Cur.params.points[k][1] < 0
    /\ Cardinality(sel) >= 2 /\ Cardinality(sel) < ImgH * ImgW

\* C5: a rect with negative w or h, or a circle with negative r, is rejected
\* with an error by compute_region_stats and by average_raw_region.
C5_NegativeSizeRejected ==
    ( /\ op \in {"compute_region_stats", "average_raw_region"}
      /\ NegativeSize(Cur) )
    => out.kind = "error"

\* C6: a polygon with fewer than 3 vertices is rejected with an error by
\* compute_region_stats and by average_raw_region: no row, no None.
C6_FewVerticesRejected ==
    ( /\ op \in {"compute_region_stats", "average_raw_region"}
      /\ Cur.shape = "polygon" /\ Len(Cur.params.points) < 3 )
    => out.kind = "error"

\* C7: both entry points fail with an error when the array has the wrong
\* shape (compute_region_stats: not H x W x 3; average_raw_region: not 2-D)
\* or when the Region's shape is none of rect, circle, polygon.
C7_WrongShapeRejected ==
    /\ (op = "compute_region_stats" /\ ~IsRgb(img)) => out.kind = "error"
    /\ (op = "average_raw_region" /\ Len(img.shape) # 2) => out.kind = "error"
    /\ ( /\ op \in {"compute_region_stats", "average_raw_region"}
         /\ Cur.shape \notin Shapes )
       => out.kind = "error"

WellFormed(doc) ==
    /\ doc.t = "arr"
    /\ \A k \in DOMAIN doc.v :
        LET d == doc.v[k]
        IN  /\ d.t = "obj"
            /\ {"id", "shape", "params"} \subseteq DOMAIN d.v
            /\ d.v["id"].t = "num"
            /\ d.v["shape"].t = "str" /\ d.v["shape"].v \in Shapes
            /\ d.v["params"].t = "obj"

C10_MalformedRejected ==
    (op = "load_template" /\ file.t # "absent" /\ ~WellFormed(file))
    => out.kind = "error"

\* ---------------------------------------------------------------- session (gui/main_window.py)
\* The main window's fields are the record gui; its Region list is regions and
\* its decoded image (_full_rgb) is img.  A canvas event carries the display
\* coordinates <<x, y>>.  The decoded image fits the 1600 x 1000 display box,
\* so _scale is 1.0, and the canvas is no larger than the image, so
\* _display_origin is (0, 0).
MaxSession == 3
MaxPoly == 3

NoImage == [shape |-> <<>>, data |-> <<>>]
NoPoint == <<>>

\* the image load_dng decodes for the session
SessionImage == Array3(MaxDim, MaxDim, 3, "ramp")
image_size_display == <<SessionImage.shape[2], SessionImage.shape[1]>>
display_origin == <<0, 0>>

\* where the button goes down, and where it is released
Presses == {<<0, 0>>}
Releases == {<<0, 0>>, <<MaxDim, MaxDim>>}
ShapeModes == {"rect", "circle", "polygon"}
DngPaths == {"a.dng"}

\* the templates on disk the file dialog can pick: two Regions stored with the
\* same id, an empty template, a template whose second element is no Region
\* dict, and a path with no file behind it
TemplateFiles ==
    << JArr(<<JObj([id |-> JNum(5), shape |-> JStr("rect"), params |-> GoodParams]),
              JObj([id |-> JNum(5), shape |-> JStr("circle"),
                    params |-> JObj([cx |-> JNum(1), cy |-> JNum(1), r |-> JNum(1)])])>>),
       JArr(<<>>),
       JArr(<<GoodItem, JNum(1)>>),
       NoFile >>

\* int(round(n ** 0.5)) of a sum of two squares
RoundSqrt(n) ==
    CHOOSE k \in 0..(n + 1) :
        /\ (k = 0 \/ (2*k - 1) * (2*k - 1) <= 4*n)
        /\ 4*n < (2*k + 1) * (2*k + 1)

\* self._next_region_id += 1
NextId_Same(n) == n
NextId(n) == n + 1

\* for r in regs: r.id = self._next_region_id; self._next_region_id += 1;
\* self.regions.append(r)
Renumber_KeepStored(regs, n) == regs
RECURSIVE Renumber(_, _)
Renumber(regs, n) ==
    IF regs = <<>> THEN <<>>
    ELSE <<[regs[1] EXCEPT !.id = n]>> \o Renumber(Tail(regs), NextId(n))

\* self.regions.append(r) for each loaded Region, in template order
AppendLoaded_Overwrite(regs, new) == new
AppendLoaded(regs, new) == regs \o new

RECURSIVE CountUp(_, _)
CountUp(n, k) == IF k = 0 THEN n ELSE CountUp(NextId(n), k - 1)

IdsOf(regs) == {regs[k].id : k \in DOMAIN regs}

InitSession ==
    /\ img = NoImage
    /\ regions = <<>>
    /\ gui = [tk_img |-> FALSE, current_path |-> "", next_region_id |-> 1,
              shape_var |-> "rect", drag_start |-> NoPoint,
              drawing_polygon |-> FALSE, poly_points |-> <<>>,
              last_region |-> None]
    /\ issued = {}
    /\ op = "init"
    /\ arg = 0
    /\ out = NoCall
    /\ sel = {}
    /\ file = NoFile
    /\ folder = NoFolder
    /\ decoded = <<>>
    /\ settings = NoSettings
    /\ used = <<>>
    /\ excel = NoFile

\* _load_and_show on the session g: load_dng raises, or its result does not
\* unpack into the four values, and only the label changes; or the decode
\* yields the image, the Region list is cleared and the id counter restarts
load_and_show(g, ok) ==
    IF ~ok
    THEN /\ out' = Raise("Failed to load")
         /\ gui' = g
         /\ UNCHANGED <<img, regions>>
    ELSE /\ out' = None
         /\ img' = SessionImage
         /\ regions' = <<>>
         /\ gui' = [g EXCEPT !.next_region_id = 1, !.last_region = None,
                             !.tk_img = TRUE]

\* on_open: the dialog returns a path ("" when cancelled)
OnOpen ==
    \E path \in DngPaths \cup {""}, ok \in BOOLEAN :
        /\ op' = "on_open"
        /\ IF path = ""
           THEN /\ out' = NoCall
                /\ UNCHANGED <<img, regions, gui>>
           ELSE load_and_show([gui EXCEPT !.current_path = path], ok)
        /\ UNCHANGED <<arg, sel, file, issued, batch>>

\* apply_settings: reprocess the current image, if there is one
ApplySettings ==
    \E ok \in BOOLEAN :
        /\ op' = "apply_settings"
        /\ IF gui.current_path = ""
           THEN /\ out' = NoCall
                /\ UNCHANGED <<img, regions, gui>>
           ELSE load_and_show(gui, ok)
        /\ UNCHANGED <<arg, sel, file, issued, batch>>

\* the shape menu sets shape_var
SelectShape ==
    \E mode \in ShapeModes :
        /\ mode # gui.shape_var
        /\ op' = "select_shape"
        /\ out' = NoCall
        /\ gui' = [gui EXCEPT !.shape_var = mode]
        /\ UNCHANGED <<img, regions, arg, sel, file, issued, batch>>

\* _on_mouse_down
OnMouseDown ==
    \E e \in Presses :
        /\ (gui.tk_img /\ gui.shape_var = "polygon" /\ gui.drawing_polygon)
               => Len(gui.poly_points) < MaxPoly
        /\ op' = "on_mouse_down"
        /\ out' = NoCall
        /\ gui' = IF ~gui.tk_img THEN gui
                  ELSE IF gui.shape_var = "polygon" THEN
                      IF ~gui.drawing_polygon
                      THEN [gui EXCEPT !.drawing_polygon = TRUE,
                                       !.poly_points = <<e>>]
                      ELSE [gui EXCEPT !.poly_points = Append(@, e)]
                  ELSE [gui EXCEPT !.drag_start = e]
        /\ UNCHANGED <<img, regions, arg, sel, file, issued, batch>>

\* the params _on_mouse_up builds from the drag s -> e (None: no Region)
DragParams(mode, s, e) ==
    IF mode = "rect" THEN
        LET iw == image_size_display[1]
            ih == image_size_display[2]
            x0 == Max(0, Min(iw, Min(s[1], e[1]) - display_origin[1]))
            x1 == Max(0, Min(iw, Max(s[1], e[1]) - display_origin[1]))
            y0 == Max(0, Min(ih, Min(s[2], e[2]) - display_origin[2]))
            y1 == Max(0, Min(ih, Max(s[2], e[2]) - display_origin[2]))
        IN  IF (x1 - x0) < 2 \/ (y1 - y0) < 2 THEN None
            ELSE [kind |-> "params",
                  params |-> [x |-> x0, y |-> y0, w |-> x1 - x0, h |-> y1 - y0]]
    ELSE IF mode = "circle" THEN
        LET dx == e[1] - s[1]
            dy == e[2] - s[2]
        IN  [kind |-> "params",
             params |-> [cx |-> s[1] - display_origin[1],
                         cy |-> s[2] - display_origin[2],
                         r |-> RoundSqrt(dx * dx + dy * dy)]]
    ELSE None

\* _on_mouse_up
OnMouseUp ==
    \E e \in Releases :
        /\ Len(regions) < MaxSession
        /\ op' = "on_mouse_up"
        /\ IF gui.shape_var = "polygon" \/ gui.drag_start = NoPoint \/ img.shape = <<>>
           THEN /\ out' = NoCall
                /\ UNCHANGED <<regions, gui, issued>>
           ELSE LET p == DragParams(gui.shape_var, gui.drag_start, e)
                IN  IF p.kind = "none"
                    THEN /\ out' = NoCall
                         /\ gui' = [gui EXCEPT !.drag_start = NoPoint]
                         /\ UNCHANGED <<regions, issued>>
                    ELSE LET region == Region(gui.next_region_id, gui.shape_var, p.params)
                         IN  /\ regions' = Append(regions, region)
                             /\ gui' = [gui EXCEPT !.drag_start = NoPoint,
                                                   !.next_region_id = NextId(@),
                                                   !.last_region = region]
                             /\ issued' = issued \cup {region.id}
                             /\ out' = compute_region_stats(img, region)
        /\ UNCHANGED <<img, arg, sel, file, batch>>

\* _on_double_click
OnDoubleClick ==
    /\ Len(regions) < MaxSession
    /\ op' = "on_double_click"
    /\ IF gui.shape_var # "polygon" \/ ~gui.drawing_polygon \/ Len(gui.poly_points) < 3
       THEN /\ out' = NoCall
            /\ UNCHANGED <<regions, gui, issued>>
       ELSE LET points_full == [k \in DOMAIN gui.poly_points |->
                                  <<gui.poly_points[k][1] - display_origin[1],
                                    gui.poly_points[k][2] - display_origin[2]>>]
                region == Region(gui.next_region_id, "polygon", [points |-> points_full])
            IN  /\ regions' = Append(regions, region)
                /\ gui' = [gui EXCEPT !.drawing_polygon = FALSE,
                                      !.poly_points = <<>>,
                                      !.next_region_id = NextId(@),
                                      !.last_region = region]
                /\ issued' = issued \cup {region.id}
                /\ out' = compute_region_stats(img, region)
    /\ UNCHANGED <<img, arg, sel, file, batch>>

\* on_load_template: the dialog picks one of the templates on disk, or is
\* cancelled (0)
OnLoadTemplate ==
    \E t \in 0..Len(TemplateFiles) :
        /\ op' = "on_load_template"
        /\ IF t = 0
           THEN /\ out' = NoCall
                /\ UNCHANGED <<regions, gui, issued>>
           ELSE LET regs == load_template(TemplateFiles[t])
                IN  /\ out' = regs
                    /\ IF regs.kind = "error"
                       THEN UNCHANGED <<regions, gui, issued>>
                       ELSE LET new == Renumber(regs.value, gui.next_region_id)
                                all == AppendLoaded(regions, new)
                            IN  /\ Len(all) <= MaxSession
                                /\ regions' = all
                                /\ gui' = [gui EXCEPT
                                             !.next_region_id = CountUp(@, Len(regs.value)),
                                             !.last_region = IF all # <<>>
                                                             THEN all[Len(all)] ELSE None]
                                /\ issued' = issued \cup IdsOf(new)
        /\ UNCHANGED <<img, arg, sel, file, batch>>

NextSession ==
    \/ OnOpen
    \/ ApplySettings
    \/ SelectShape
    \/ OnMouseDown
    \/ OnMouseUp
    \/ OnDoubleClick
    \/ OnLoadTemplate

SpecSession == InitSession /\ [][NextSession]_vars

\* ---------------------------------------------------------------- session properties
\* C11: in every session state the ids of the Regions in the session list are
\* positive integers, pairwise distinct, strictly increasing in list order,
\* and all smaller than the next-id counter.
C11_IdsIncreasing ==
    \A k \in DOMAIN regions :
        /\ regions[k].id \in Nat
        /\ regions[k].id >= 1
        /\ regions[k].id < gui.next_region_id
        /\ \A j \in DOMAIN regions : j < k => regions[j].id < regions[k].id

\* a drawn Region followed by Regions loaded from a template, or the reverse
C11_Witness ==
    /\ Len(regions) >= 2
    /\ gui.tk_img
    /\ regions[1].shape = "polygon"
    /\ regions[2].shape \in {"rect", "circle"}

\* the ids a step gives to the Regions it appends
NewIds ==
    IF Len(regions') > Len(regions)
    THEN {regions'[k].id : k \in (Len(regions) + 1)..Len(regions')}
    ELSE {}

C13_LoadAppends ==
    [][ op' = "on_load_template" =>
          IF out'.kind = "ok"
          THEN LET n == Len(regions)
                   loaded == out'.value
               IN  /\ Len(regions') = n + Len(loaded)
                   /\ SubSeq(regions', 1, n) = regions
                   /\ \A k \in DOMAIN loaded :
                         /\ regions'[n + k].shape = loaded[k].shape
                         /\ regions'[n + k].params = loaded[k].params
                         /\ regions'[n + k].id \notin IdsOf(regions)
                         /\ \A j \in DOMAIN loaded :
                               j # k => regions'[n + j].id # regions'[n + k].id
          ELSE /\ regions' = regions
               /\ gui'.next_region_id = gui.next_region_id ]_vars

\* the two-Region template (both stored with id 5) was loaded into a session
\* that held a drawn Region
C13_Witness ==
    /\ op = "on_load_template"
    /\ out.kind = "ok"
    /\ Len(out.value) = 2
    /\ Len(regions) = 3
    /\ regions[1].shape = "polygon"
    /\ regions[2].id # out.value[1].id

\* ---------------------------------------------------------------- raw-plane properties
\* the sensor pixels of sel whose row and column, counted from the first row
\* and column of the sub-window, have parity r0 and c0
ParityClass(e, r0, c0) ==
    {q \in sel : (q[1] - e.rows[1]) % 2 = r0 /\ (q[2] - e.cols[1]) % 2 = c0}

\* the mean of the samples at the pixels S of img (NaN over none)
MeanAt(S) ==
    IF S = {} THEN NaN
    ELSE <<SumOver(S, [q \in S |-> SumSeq(img.data[q])]),
           SumOver(S, [q \in S |-> Len(img.data[q])])>>

\* C14: average_raw_region splits the sub-window into four planes by the
\* parity of the row and column index within it (R even/even, G1 even/odd,
\* G2 odd/even, B odd/odd), strides the mask with the same parity, and takes
\* each plane's mean only over the plane samples whose mask entry is true:
\* each returned value is the mean over the included sensor pixels of that
\* parity class.
C14_PlanesByParity ==
    (op = "average_raw_region" /\ out.kind = "planes")
    => LET e == extract_raw_region(img, Cur)
       IN  /\ out.planes.R = MeanAt(ParityClass(e, 0, 0))
           /\ out.planes.G1 = MeanAt(ParityClass(e, 0, 1))
           /\ out.planes.G2 = MeanAt(ParityClass(e, 1, 0))
           /\ out.planes.B = MeanAt(ParityClass(e, 1, 1))

\* a circle whose mask excludes one pixel of a 2 x 2 sub-window of a sensor
\* array: three planes have a mean, the fourth is NaN
C14_Witness ==
    /\ op = "average_raw_region" /\ out.kind = "planes"
    /\ Len(img.shape) = 2
    /\ Cur.shape = "circle"
    /\ Cardinality(sel) = 3
    /\ out.planes.G1 # out.planes.G2
    /\ out.planes.G1 # NaN /\ out.planes.G2 # NaN

\* ---------------------------------------------------------------- the impulse sensor
\* a 4 x 4 sensor array, all zero except pixel (0, 0) = 100
ImpulseSensor ==
    [shape |-> <<4, 4>>,
     data |-> [p \in (0..3) \X (0..3) |-> IF p = <<0, 0>> THEN <<100>> ELSE <<0>>]]

\* Regions covering the whole array (rect, circle, polygon) and two 2 x 2 rects
ImpulseRegions ==
    << Region(1, "rect", [x |-> 0, y |-> 0, w |-> 4, h |-> 4]),
       Region(1, "circle", [cx |-> 2, cy |-> 2, r |-> 3]),
       Region(1, "polygon", [points |-> <<<<0, 0>>, <<3, 0>>, <<3, 3>>, <<0, 3>>>>]),
       Region(1, "rect", [x |-> 0, y |-> 0, w |-> 2, h |-> 2]),
       Region(1, "rect", [x |-> 1, y |-> 1, w |-> 2, h |-> 2]) >>

ImpulseLists ==
    {<<>>}
    \cup {<<ImpulseRegions[i]>> : i \in DOMAIN ImpulseRegions}
    \cup {<<ImpulseRegions[i], [ImpulseRegions[j] EXCEPT !.id = 2]>> :
            i \in DOMAIN ImpulseRegions, j \in DOMAIN ImpulseRegions}

InitImpulse ==
    /\ img = ImpulseSensor
    /\ regions \in ImpulseLists
    /\ op = "init"
    /\ arg = 0
    /\ out = NoCall
    /\ sel = {}
    /\ file = NoFile
    /\ gui = NoSession
    /\ issued = {}
    /\ folder = NoFolder
    /\ decoded = <<>>
    /\ settings = NoSettings
    /\ used = <<>>
    /\ excel = NoFile

SpecImpulse == InitImpulse /\ [][Next]_vars

\* the fraction m is the number v
MeanIs(m, v) == m[2] > 0 /\ m[1] = v * m[2]

\* the Region the operation ran on includes every pixel of the array
CoversSensor ==
    LET e == extract_raw_region(img, Cur)
    IN  e.kind = "ok" /\ RawIncluded(e) = DOMAIN img.data

\* C15 (as claimed): on the 4 x 4 sensor array that is zero except (0,0) = 100,
\* average_raw_region over a Region covering the full array yields exactly
\* R = 100, G1 = 0, G2 = 0, B = 0.
C15_ImpulseGives100 ==
    (op = "average_raw_region" /\ img = ImpulseSensor /\ CoversSensor)
    => /\ out.kind = "planes"
       /\ MeanIs(out.planes.R, 100)
       /\ MeanIs(out.planes.G1, 0)
       /\ MeanIs(out.planes.G2, 0)
       /\ MeanIs(out.planes.B, 0)

\* C15 (amended): on that array a Region covering the full array yields
\* R = 25 (the mean of the four R-plane samples 100, 0, 0, 0), G1 = 0,
\* G2 = 0, B = 0.
C15_ImpulseGives25 ==
    (op = "average_raw_region" /\ img = ImpulseSensor /\ CoversSensor)
    => /\ out.kind = "planes"
       /\ MeanIs(out.planes.R, 25)
       /\ MeanIs(out.planes.G1, 0)
       /\ MeanIs(out.planes.G2, 0)
       /\ MeanIs(out.planes.B, 0)

C15_Witness ==
    /\ op = "average_raw_region" /\ img = ImpulseSensor /\ CoversSensor
    /\ Cur.shape = "rect"
    /\ out.kind = "planes"
    /\ out.planes.R = <<100, 4>>

\* C16: whenever the Region's sub-window is non-empty, average_raw_region
\* (on a sensor array, for a rect, circle or polygon) does not raise and
\* returns all four planes; a plane with no included sample is NaN and every
\* other plane is the mean of its included samples.
C16_NonEmptyGivesFourPlanes ==
    LET e == extract_raw_region(img, Cur)
    IN  ( /\ op = "average_raw_region"
          /\ Len(img.shape) = 2 /\ Cur.shape \in Shapes
          /\ e.kind = "ok" /\ Len(e.rows) * Len(e.cols) > 0 )
        => /\ out.kind = "planes"
           /\ DOMAIN out.planes = {"R", "G1", "G2", "B"}
           /\ \A r0 \in {0, 1}, c0 \in {0, 1} :
                LET name == IF r0 = 0 THEN (IF c0 = 0 THEN "R" ELSE "G1")
                            ELSE (IF c0 = 0 THEN "G2" ELSE "B")
                    class == {q \in RawIncluded(e) :
                                /\ (q[1] - e.rows[1]) % 2 = r0
                                /\ (q[2] - e.cols[1]) % 2 = c0}
                IN  /\ class = {} => out.planes[name] = NaN
                    /\ class # {} => /\ out.planes[name] # NaN
                                     /\ out.planes[name] = MeanAt(class)

\* ---------------------------------------------------------------- batch collector (processing/time_series.py)
\* A file name is a one-letter stem (1 = "a", 2 = "b", ...) and an extension.
\* The folder is its listing, in the order os.listdir returns it, and what is
\* known of each file: whether load_dng can decode it, its EXIF capture tags
\* and its modification time.
MaxFiles == 2

FileName(stem, ext) == [stem |-> stem, ext |-> ext]

\* f.lower() on the extension (stems are lower-case letters)
Lower(ext) == IF ext = "DNG" THEN "dng" ELSE ext

\* str order of the extensions: "D" < "d" < "t"
ExtRank(ext) == IF ext = "DNG" THEN 1 ELSE IF ext = "dng" THEN 2 ELSE 3

\* str order of two names (of two paths in one folder)
Before(n, m) ==
    \/ n.stem < m.stem
    \/ n.stem = m.stem /\ ExtRank(n.ext) < ExtRank(m.ext)

\* paths.sort()
SortPaths_AsListed(s) == s

RECURSIVE SortPaths(_)
SortPaths(s) ==
    IF s = <<>> THEN <<>>
    ELSE LET i == CHOOSE i \in DOMAIN s : \A j \in DOMAIN s : j = i \/ Before(s[i], s[j])
         IN  <<s[i]>> \o SortPaths(SubSeq(s, 1, i - 1) \o SubSeq(s, i + 1, Len(s)))

\* [f for f in os.listdir(folder) if f.lower().endswith(".dng")]
Matching(listing) == SelectSeq(listing, LAMBDA f : Lower(f.ext) = "dng")

\* the keyword parameters of load_dng
LoadDngParams ==
    {"max_w", "max_h", "output_bits", "wb_mode", "user_wb_rgb", "gamma_mode",
     "gamma_tuple", "auto_bright", "demosaic_algo"}

Keys(items) == {i[1] : i \in items}

\* the value passed for a keyword, or the parameter's default
Keyword(items, key, default) ==
    IF key \in Keys(items) THEN (CHOOSE i \in items : i[1] = key)[2] ELSE default

\* raw.postprocess(output_bps=...): the file's scene at 8 bits, or at 16 bits
\* (full scale 65535 = 257 * 255)
Postprocess(a, output_bits) ==
    IF output_bits = 8 THEN a
    ELSE [a EXCEPT !.data = [px \in DOMAIN a.data |->
                               [c \in DOMAIN a.data[px] |-> 257 * a.data[px][c]]]]

\* load_dng(p, **kw): TypeError for a keyword it does not have, ValueError
\* for output_bits other than 8 and 16, the decoder's error for a file it
\* cannot read, else the decoded full_rgb
load_dng(fd, p, kw) ==
    IF Keys(kw) \ LoadDngParams # {} THEN Raise("TypeError")
    ELSE IF Keyword(kw, "output_bits", 8) \notin {8, 16} THEN Raise("ValueError")
    ELSE IF ~fd.files[p].ok THEN Raise("LibRawError")
    ELSE [kind |-> "ok",
          full_rgb |-> Postprocess(fd.files[p].image, Keyword(kw, "output_bits", 8))]

\* _get_image_timestamp.  A tag of the Exif IFD is absent, an empty value, a
\* value strptime parses (the time it denotes) or a value it rejects.
ExifAbsent == [t |-> "absent"]
ExifEmpty == [t |-> "empty"]
ExifTime(n) == [t |-> "time", v |-> n]
ExifGarbled == [t |-> "garbled"]

DateTime(source, time) == [kind |-> "datetime", source |-> source, time |-> time]

\* a or b, of two tag values: None and an empty value are falsy
TagOr(a, b) == IF a.t \in {"absent", "empty"} THEN b ELSE a

\* datetime.strptime(dt, "%Y:%m:%d %H:%M:%S")
strptime(dt) ==
    IF dt.t = "time" THEN DateTime("exif", dt.v) ELSE Raise("ValueError")

\* the try block: piexif.load raises on a file it cannot read; a truthy tag
\* is parsed and returned; with no tag the block is left without a return
ExifTimestamp(f) ==
    IF ~f.exif.readable THEN Raise("InvalidImageDataError")
    ELSE IF TagOr(f.exif.DateTimeOriginal, f.exif.DateTimeDigitized).t \in {"absent", "empty"}
         THEN None
    ELSE strptime(TagOr(f.exif.DateTimeOriginal, f.exif.DateTimeDigitized))

\* except Exception: pass
Caught_Reraised(t) == t
Caught(t) == IF t.kind = "error" THEN None ELSE t

\* return datetime.fromtimestamp(os.path.getmtime(path)), reached when the
\* try block returned nothing
OrMtime(t, f) == IF t.kind = "none" THEN DateTime("mtime", f.mtime) ELSE t

_get_image_timestamp(fd, p) == OrMtime(Caught(ExifTimestamp(fd.files[p])), fd.files[p])

\* df.insert(0, column, value): the new column comes first and holds the one
\* value in every row
Insert_AtEnd(df, column, value) ==
    [df EXCEPT !.columns = @ \o <<column>>,
               !.rows = [i \in DOMAIN @ |-> (column :> value) @@ @[i]]]

Insert(df, column, value) ==
    [df EXCEPT !.columns = <<column>> \o @,
               !.rows = [i \in DOMAIN @ |-> (column :> value) @@ @[i]]]

\* one pass of the loop body after load_dng returned d: the image's frame
\* with its Timestamp and Image columns, or the error of load_dng or of
\* measure_regions
WithTimestamp(p, df, ts) ==
    IF ts.kind = "error" THEN ts
    ELSE [kind |-> "ok", frame |-> Insert(Insert(df, "Timestamp", ts), "Image", p)]

Stamped(fd, p, df) ==
    IF df.kind = "error" THEN df
    ELSE WithTimestamp(p, df, _get_image_timestamp(fd, p))

MeasureImage(fd, p, d, regs) ==
    IF d.kind = "error" THEN d
    ELSE Stamped(fd, p, measure_regions(d.full_rgb, regs))

\* frames.append(df), then the rest of the loop.  A call is the path and
\* the keyword arguments load_dng was given.
Call(p, ls) == [path |-> p, kw |-> ls.items]

Appended(call, frame, rest) ==
    IF rest.kind = "error" THEN [rest EXCEPT !.calls = <<call>> \o @]
    ELSE [rest EXCEPT !.frames = <<frame>> \o @, !.calls = <<call>> \o @]

\* load_settings after load_dng(p, **load_settings): the call builds the
\* callee's keywords from the dictionary and leaves it as it was
AfterCall_Consumed(ls) == Dict({})
AfterCall(ls) == ls

\* the loop over the sorted paths from position k with the settings ls: the
\* frames it collects and the load_dng calls it makes, or the first error and
\* the calls made up to it.  An exception in the body leaves the loop.
RECURSIVE MeasureImages(_, _, _, _, _)
LoopBody_SkipFailed(one, fd, paths, regs, k, ls) ==
    IF one.kind = "error"
    THEN [MeasureImages(fd, paths, regs, k + 1, AfterCall(ls))
             EXCEPT !.calls = <<Call(paths[k], ls)>> \o @]
    ELSE Appended(Call(paths[k], ls), one.frame,
                  MeasureImages(fd, paths, regs, k + 1, AfterCall(ls)))

LoopBody(one, fd, paths, regs, k, ls) ==
    IF one.kind = "error"
    THEN [kind |-> "error", exc |-> one.exc, calls |-> <<Call(paths[k], ls)>>]
    ELSE Appended(Call(paths[k], ls), one.frame,
                  MeasureImages(fd, paths, regs, k + 1, AfterCall(ls)))

MeasureImages(fd, paths, regs, k, ls) ==
    IF k > Len(paths) THEN [kind |-> "ok", frames |-> <<>>, calls |-> <<>>]
    ELSE LoopBody(MeasureImage(fd, paths[k], load_dng(fd, paths[k], ls.items), regs),
                  fd, paths, regs, k, ls)

\* pd.concat(frames, ignore_index=True) of a non-empty list of frames: the
\* columns in order of first appearance, the rows of the frames one after
\* the other
RECURSIVE ConcatColumns(_, _)
ConcatColumns(frames, k) ==
    IF k > Len(frames) THEN <<>>
    ELSE LET rest == ConcatColumns(frames, k + 1)
         IN  frames[k].columns
             \o SelectSeq(rest, LAMBDA c : c \notin SeqRange(frames[k].columns))

RECURSIVE ConcatRows(_, _)
ConcatRows(frames, k) ==
    IF k > Len(frames) THEN <<>>
    ELSE frames[k].rows \o ConcatRows(frames, k + 1)

concat(frames) ==
    [kind |-> "frame", columns |-> ConcatColumns(frames, 1),
     rows |-> ConcatRows(frames, 1)]

\* the paths and the keyword arguments of a sequence of load_dng calls
PathsOf(calls) == [k \in DOMAIN calls |-> calls[k].path]
KeywordsOf(calls) == [k \in DOMAIN calls |-> calls[k].kw]

\* result.to_excel(excel_path), return result -- unless the loop raised
\* (old: the workbook at excel_path before the call)
Exported(result, m, old) ==
    [out |-> result, decoded |-> PathsOf(m.calls), used |-> KeywordsOf(m.calls),
     excel |-> result]

Finished(m, old) ==
    IF m.kind = "error"
    THEN [out |-> Raise(m.exc), decoded |-> PathsOf(m.calls),
          used |-> KeywordsOf(m.calls), excel |-> old]
    ELSE Exported(concat(m.frames), m, old)

\* if not paths: raise FileNotFoundError; else the loop
Collected_NoCheck(fd, paths, regs, old, ls) ==
    Finished(MeasureImages(fd, paths, regs, 1, ls), old)

Collected(fd, paths, regs, old, ls) ==
    IF paths = <<>>
    THEN [out |-> Raise("FileNotFoundError"), decoded |-> <<>>, used |-> <<>>,
          excel |-> old]
    ELSE Finished(MeasureImages(fd, paths, regs, 1, ls), old)

\* regions = load_template(template) if isinstance(template, str) else list(template)
TemplateRegions(template) ==
    IF template.kind = "path" THEN load_template(template.doc)
    ELSE [kind |-> "ok", value |-> template.regions]

\* load_settings = dict(load_settings or {})
Copied(load_settings) ==
    IF load_settings.t = "none" THEN Dict({}) ELSE Dict(load_settings.items)

WithRegions(fd, loaded, old, ls) ==
    IF loaded.kind = "error"
    THEN [out |-> loaded, decoded |-> <<>>, used |-> <<>>, excel |-> old]
    ELSE Collected(fd, SortPaths(Matching(fd.listing)), loaded.value, old, ls)

\* collect_time_series(folder, template, excel_path, load_settings): what it
\* returns or raises, the load_dng calls it made, and the workbook at
\* excel_path afterwards
collect_time_series(fd, template, old, load_settings) ==
    WithRegions(fd, TemplateRegions(template), old, Copied(load_settings))

\* the caller's Region list after the run: regions = list(template) copies
\* the list and shares its Regions, which measure_regions reads once for
\* every image that load_dng decoded
RECURSIVE BatchRead(_, _, _)
BatchRead(fd, paths, regs) ==
    IF paths = <<>> THEN regs
    ELSE IF ~fd.files[paths[1]].ok THEN regs
    ELSE BatchRead(fd, Tail(paths), MeasureRead(fd.files[paths[1]].image, regs))

\* ---- the folders, templates and workbooks of the batch runs
AllNames ==
    {FileName(s, "dng") : s \in 1..MaxFiles}
    \cup {FileName(1, "DNG"), FileName(1, "txt")}

Listings ==
    {s \in UNION {[1..k -> AllNames] : k \in 0..Cardinality(AllNames)} :
        \A i \in DOMAIN s : \A j \in DOMAIN s : s[i] = s[j] => i = j}

\* file "a" carries DateTimeOriginal, "b" only DateTimeDigitized, later
\* files an unparsable tag; "a.DNG" has no readable EXIF block; the image of
\* file number s is s x s pixels (up to MaxDim)
FileOf(n, broken) ==
    [ok |-> n # broken,
     image |-> Array3(Min(n.stem, MaxDim), Min(n.stem, MaxDim), 3, "ramp"),
     exif |-> [readable |-> n.ext # "DNG",
               DateTimeOriginal |-> IF n.stem = 1 THEN ExifTime(100 + n.stem)
                                    ELSE IF n.stem = 2 THEN ExifAbsent
                                    ELSE ExifGarbled,
               DateTimeDigitized |-> IF n.stem = 2 THEN ExifTime(200) ELSE ExifAbsent],
     mtime |-> 10 * n.stem + ExtRank(n.ext)]

NoName == FileName(0, "")

Folders ==
    {[listing |-> s, files |-> [n \in SeqRange(s) |-> FileOf(n, broken)]] :
        s \in Listings, broken \in AllNames \cup {NoName}}

BatchLists ==
    { <<>>,
      <<Region(1, "rect", [x |-> 0, y |-> 0, w |-> 1, h |-> 1])>>,
      <<Region(1, "rect", [x |-> 1, y |-> 1, w |-> 1, h |-> 1])>>,
      <<Region(1, "rect", [x |-> 0, y |-> 0, w |-> 0, h |-> 0])>>,
      <<Region(1, "rect", [x |-> 1, y |-> 1, w |-> 1, h |-> 1]),
        Region(2, "circle", [cx |-> 0, cy |-> 0, r |-> 0])>>,
      <<Region(1, "ellipse", [x |-> 0, y |-> 0, w |-> 1, h |-> 1])>> }

BatchTemplates ==
    { save_template(<<Region(1, "circle", [cx |-> 0, cy |-> 0, r |-> 1])>>),
      JArr(<<JNum(1)>>) }

OldWorkbook == [kind |-> "frame", columns |-> <<"old">>, rows |-> <<>>]

\* the template argument: a Region sequence, or the path of a template file
Template ==
    IF file.t = "absent" THEN [kind |-> "regions", regions |-> regions]
    ELSE [kind |-> "path", doc |-> file]

InitBatch ==
    /\ img = NoImage
    /\ \/ regions \in BatchLists /\ file = NoFile
       \/ regions = <<>> /\ file \in BatchTemplates
    /\ folder \in Folders
    /\ excel \in {NoFile, OldWorkbook}
    /\ decoded = <<>>
    /\ settings = NoSettings
    /\ used = <<>>
    /\ op = "init"
    /\ arg = 0
    /\ out = NoCall
    /\ sel = {}
    /\ gui = NoSession
    /\ issued = {}

CollectTimeSeries ==
    \E c \in {collect_time_series(folder, Template, excel, settings)} :
        /\ op' = "collect_time_series"
        /\ out' = c.out
        /\ decoded' = c.decoded
        /\ used' = c.used
        /\ excel' = c.excel
        /\ settings' = settings
        /\ regions' = IF file.t = "absent"
                      THEN BatchRead(folder, c.decoded, regions)
                      ELSE regions
        /\ UNCHANGED <<img, arg, sel, file, folder, session>>

NextBatch == CollectTimeSeries

SpecBatch == InitBatch /\ [][NextBatch]_vars

\* ---------------------------------------------------------------- batch properties
\* the files of the folder that match, and the Regions the run measures
Images == {n \in SeqRange(folder.listing) : Lower(n.ext) = "dng"}
TemplateOk == TemplateRegions(Template).kind = "ok"
BatchRegions == TemplateRegions(Template).value
Ascending(s) == \A i \in DOMAIN s : \A j \in DOMAIN s : i < j => Before(s[i], s[j])
ImageColumn == [k \in DOMAIN out.rows |-> out.rows[k]["Image"]]
PosOfId(id) == CHOOSE k \in DOMAIN BatchRegions : BatchRegions[k].id = id
OneRect == Len(BatchRegions) = 1 /\ BatchRegions[1].shape = "rect"

\* the images were handed to load_dng in ascending name order, all of them,
\* and the rows are in that order, the rows of one image in Region order
InSortedOrder ==
    /\ Ascending(decoded)
    /\ SeqRange(decoded) = Images
    /\ \A i \in DOMAIN out.rows : \A j \in DOMAIN out.rows :
          i < j => \/ Before(out.rows[i]["Image"], out.rows[j]["Image"])
                   \/ /\ out.rows[i]["Image"] = out.rows[j]["Image"]
                      /\ PosOfId(out.rows[i]["ID"]) < PosOfId(out.rows[j]["ID"])

\* C17 (as claimed): collect_time_series processes the matching files in
\* ascending filename order whatever the listing order, the table keeps that
\* order (rows of one image contiguous and in Region order), and with N
\* images and one rectangular Region the table has exactly N rows, its Image
\* column being the sorted filenames.
C17_SortedAndNRows ==
    (op = "collect_time_series" /\ out.kind = "frame")
    => /\ InSortedOrder
       /\ OneRect => /\ Len(out.rows) = Cardinality(Images)
                     /\ ImageColumn = decoded

\* C17 (amended): the same order, and with N images and one rectangular Region
\* the table has one row for each image in which the Region covers at least
\* one pixel, in sorted filename order: N rows when it does in every image,
\* fewer otherwise.
C17_SortedAndRowPerMeasuredImage ==
    (op = "collect_time_series" /\ out.kind = "frame")
    => /\ InSortedOrder
       /\ OneRect =>
            LET img_of(n) == folder.files[n].image
                measured == SelectSeq(decoded, LAMBDA n :
                    RgbSelect(img_of(n).shape[1], img_of(n).shape[2],
                              BatchRegions[1]).pixels # {})
            IN  /\ ImageColumn = measured
                /\ Len(measured) = Len(decoded) => Len(out.rows) = Cardinality(Images)

\* three images listed out of order, one rectangular Region, three rows
C17_Witness ==
    /\ op = "collect_time_series" /\ out.kind = "frame"
    /\ OneRect
    /\ Len(decoded) = 3 /\ Len(out.rows) = 3
    /\ ~Ascending(Matching(folder.listing))

\* C18: when the folder holds no matching file, collect_time_series raises
\* the no-images-found error before any image is decoded, returns no table
\* and leaves the export path as it was.
C18_NoImagesFound ==
    [][ (op' = "collect_time_series" /\ TemplateOk /\ Images = {})
        => /\ out' = Raise("FileNotFoundError")
           /\ decoded' = <<>>
           /\ excel' = excel ]_vars

\* a folder with files, none of them matching, and a workbook already at the
\* export path
C18_Witness ==
    /\ op = "collect_time_series"
    /\ folder.listing # <<>> /\ Images = {}
    /\ out = Raise("FileNotFoundError")
    /\ excel = OldWorkbook

\* the matching files that load_dng cannot decode
Broken == {n \in Images : ~folder.files[n].ok}

\* C19: if decoding fails for an image of the batch, at any position of the
\* sorted order, collect_time_series stops with that error: the failing image
\* is the last one handed to load_dng, no table is returned and the export
\* path is left as it was, however many images were measured before.
C19_DecodeFailureStops ==
    [][ ( /\ op' = "collect_time_series" /\ TemplateOk
          /\ \A k \in DOMAIN BatchRegions : BatchRegions[k].shape \in Shapes
          /\ Broken # {} )
        => /\ out' = Raise("LibRawError")
           /\ excel' = excel
           /\ decoded' # <<>>
           /\ decoded'[Len(decoded')] \in Broken
           /\ Ascending(decoded')
           /\ \A n \in Images :
                 n \in SeqRange(decoded') <=>
                    ~Before(decoded'[Len(decoded')], n) ]_vars

\* the second of three images failed: one image was measured, the third was
\* never decoded, the workbook at the export path is the old one
C19_Witness ==
    /\ op = "collect_time_series"
    /\ out = Raise("LibRawError")
    /\ Cardinality(Images) = 3 /\ Len(decoded) = 2
    /\ BatchRegions # <<>>
    /\ excel = OldWorkbook

TableColumns ==
    <<"Image", "Timestamp", "ID", "Shape Type", "Parameters",
      "Mean R", "Mean G", "Mean B", "Std R", "Std G", "Std B">>

\* C20: every table collect_time_series returns has exactly the columns
\* Image, Timestamp, ID, Shape Type, Parameters, Mean R, Mean G, Mean B,
\* Std R, Std G, Std B, in that order, also when Regions are empty for some
\* or all images; every row has a value for each of them.
C20_FixedColumns ==
    (op = "collect_time_series" /\ out.kind = "frame")
    => /\ out.columns = TableColumns
       /\ \A k \in DOMAIN out.rows : DOMAIN out.rows[k] = SeqRange(TableColumns)
       /\ excel = out

\* two Regions and three images: one of the Regions is empty in the first
\* two images and has pixels in the third
C20_Witness ==
    /\ op = "collect_time_series" /\ out.kind = "frame"
    /\ Len(BatchRegions) = 2
    /\ Len(decoded) = 3
    /\ Len(out.rows) = 4

\* no Region has a pixel in any image: a table with no rows
C20_WitnessAllEmpty ==
    /\ op = "collect_time_series" /\ out.kind = "frame"
    /\ BatchRegions # <<>>
    /\ Len(decoded) >= 2
    /\ out.rows = <<>>

\* ---------------------------------------------------------------- timestamp resolution (processing/time_series.py)
\* One existing image file at a time: its EXIF block readable or not, each of
\* the two capture tags absent, empty, parsable or not parsable, and its
\* modification time.
MaxTime == 2

ExifTags == {ExifAbsent, ExifEmpty, ExifGarbled} \cup {ExifTime(n) : n \in 1..MaxTime}

StampedFiles ==
    {[ok |-> TRUE,
      image |-> Array3(1, 1, 3, "ramp"),
      exif |-> [readable |-> rd, DateTimeOriginal |-> o, DateTimeDigitized |-> d],
      mtime |-> m] :
        rd \in BOOLEAN, o \in ExifTags, d \in ExifTags,
        m \in (MaxTime + 1)..(MaxTime + 2)}

InitTimestamp ==
    /\ img = NoImage
    /\ regions = <<>>
    /\ \E f \in StampedFiles :
           folder = [listing |-> <<FileName(1, "dng")>>,
                     files |-> (FileName(1, "dng") :> f)]
    /\ op = "init"
    /\ arg = 0
    /\ out = NoCall
    /\ sel = {}
    /\ file = NoFile
    /\ gui = NoSession
    /\ issued = {}
    /\ decoded = <<>>
    /\ settings = NoSettings
    /\ used = <<>>
    /\ excel = NoFile

GetImageTimestamp ==
    /\ op' = "_get_image_timestamp"
    /\ out' = _get_image_timestamp(folder, folder.listing[1])
    /\ UNCHANGED <<img, regions, arg, sel, file, session, batch>>

NextTimestamp == GetImageTimestamp

SpecTimestamp == InitTimestamp /\ [][NextTimestamp]_vars

\* the file the timestamp is resolved for, and what its tags hold
StampedFile == folder.files[folder.listing[1]]
Original == StampedFile.exif.DateTimeOriginal
Digitized == StampedFile.exif.DateTimeDigitized
Held(tag) == StampedFile.exif.readable /\ tag.t \notin {"absent", "empty"}

InitMeasure == Init \/ InitBatch

NextMeasure ==
    \/ img.shape # <<>> /\ Next
    \/ img.shape = <<>> /\ NextBatch

SpecMeasure == InitMeasure /\ [][NextMeasure]_vars

Measurements ==
    {"compute_region_stats", "extract_raw_region", "average_raw_region",
     "measure_regions", "collect_time_series"}

\* C22: no measurement changes a Region or the caller's Region list:
\* compute_region_stats, extract_raw_region, average_raw_region,
\* measure_regions and a whole collect_time_series run leave every id, shape
\* and params, and the list's length and order, as they were, whether the
\* call returns or raises.
C22_RegionsUnchanged ==
    [][op' \in Measurements => regions' = regions]_vars

\* a batch run that measured two Regions in three images and returned its table
C22_Witness ==
    /\ op = "collect_time_series"
    /\ out.kind = "frame"
    /\ Len(decoded) = 3
    /\ Len(regions) = 2

\* measure_regions raised on the second Region of a list
C22_WitnessFailure ==
    /\ op = "measure_regions"
    /\ out.kind = "error"
    /\ IsRgb(img)
    /\ Len(regions) = 2
    /\ regions[1].shape = "rect"
    /\ regions[2].shape = "ellipse"

\* ---------------------------------------------------------------- decode settings of a batch run (processing/time_series.py)
\* The load_settings argument: None, an empty dictionary, output_bits of 8,
\* 16 and a value load_dng rejects, a second keyword, and a keyword load_dng
\* does not have.
SettingsArgs ==
    { NoSettings,
      Dict({}),
      Dict({<<"output_bits", 8>>}),
      Dict({<<"output_bits", 16>>}),
      Dict({<<"output_bits", 12>>}),
      Dict({<<"output_bits", 16>>, <<"max_w", 800>>}),
      Dict({<<"quality", 1>>}) }

InitSettings ==
    /\ img = NoImage
    /\ regions = <<Region(1, "rect", [x |-> 0, y |-> 0, w |-> 1, h |-> 1])>>
    /\ file = NoFile
    /\ folder \in Folders
    /\ excel = NoFile
    /\ settings \in SettingsArgs
    /\ decoded = <<>>
    /\ used = <<>>
    /\ op = "init"
    /\ arg = 0
    /\ out = NoCall
    /\ sel = {}
    /\ gui = NoSession
    /\ issued = {}

SpecSettings == InitSettings /\ [][NextBatch]_vars

\* the keyword arguments the caller's load_settings stands for
Given(load_settings) ==
    IF load_settings.t = "none" THEN {} ELSE load_settings.items

\* C23: every image of one batch run is decoded with the same settings, the
\* ones the caller passed: each load_dng call of the run gets exactly these
\* keyword arguments, whatever the images before it did, and the caller's
\* settings dictionary is after the run what it was before.
C23_SameSettingsForEveryImage ==
    [][op' = "collect_time_series" =>
          /\ settings' = settings
          /\ Len(used') = Len(decoded')
          /\ \A k \in DOMAIN used' : used'[k] = Given(settings)]_vars

\* three images decoded at 16 bits in one run
C23_Witness ==
    /\ op = "collect_time_series"
    /\ out.kind = "frame"
    /\ settings = Dict({<<"output_bits", 16>>})
    /\ Len(used) = 3
    /\ decoded = SortPaths(Matching(folder.listing))

\* ---------------------------------------------------------------- sub-window and mask of the raw path
\* the bounding box of a circle or polygon: first and last row and column
BoundingBox(r) ==
    IF r.shape = "circle"
    THEN [top |-> r.params.cy - r.params.r, bottom |-> r.params.cy + r.params.r,
          left |-> r.params.cx - r.params.r, right |-> r.params.cx + r.params.r]
    ELSE LET xs == {r.params.points[k][1] : k \in DOMAIN r.params.points}
             ys == {r.params.points[k][2] : k \in DOMAIN r.params.points}
         IN  [top |-> CHOOSE v \in ys : \A u \in ys : v <= u,
              bottom |-> CHOOSE v \in ys : \A u \in ys : v >= u,
              left |-> CHOOSE v \in xs : \A u \in xs : v <= u,
              right |-> CHOOSE v \in xs : \A u \in xs : v >= u]

\* the indices first..last that lie in 0..n-1, in order
Clipped(first, last, n) ==
    [k \in 1..Max(Min(last, n - 1) - Max(first, 0) + 1, 0) |-> Max(first, 0) + k - 1]

Masked(r) == r.shape \in {"circle", "polygon"} /\ ValidRegion(r)

\* C24: for every circle and polygon Region, wherever it lies relative to the
\* sensor array, extract_raw_region returns a sub-window and a mask of the
\* same shape, the sub-window is the Region's bounding box clipped to the
\* array (empty when the two do not meet), a circle's mask entry (i, j) tells
\* whether the sensor pixel at sub-window position (i, j) is in the disk, and
\* average_raw_region never raises for indexing a plane with a mask of
\* another shape.
C24_MaskMatchesSubWindow ==
    /\ ( /\ op = "extract_raw_region" /\ arg > 0
         /\ Len(img.shape) = 2 /\ Masked(Cur) /\ out.kind = "ok" )
       => /\ out.mask.present
          /\ out.mask.h = Len(out.rows)
          /\ out.mask.w = Len(out.cols)
          /\ out.rows = Clipped(BoundingBox(Cur).top, BoundingBox(Cur).bottom, ImgH)
          /\ out.cols = Clipped(BoundingBox(Cur).left, BoundingBox(Cur).right, ImgW)
          /\ Cur.shape = "circle" =>
                \A i \in DOMAIN out.rows, j \in DOMAIN out.cols :
                    <<i - 1, j - 1>> \in out.mask.on
                    <=> (out.cols[j] - Cur.params.cx) * (out.cols[j] - Cur.params.cx)
                        + (out.rows[i] - Cur.params.cy) * (out.rows[i] - Cur.params.cy)
                        <= Cur.params.r * Cur.params.r
    /\ ( /\ op = "average_raw_region" /\ arg > 0
         /\ Len(img.shape) = 2 /\ Masked(Cur) )
       => out.kind # "error"

\* ---------------------------------------------------------------- colour sites of the RGGB sensor
\* the included sensor pixels at rows of parity r0 and columns of parity c0
\* of the sensor array
ColourSite(r0, c0) == {q \in sel : q[1] % 2 = r0 /\ q[2] % 2 = c0}

\* C25: whatever the parity of the Region's top-left corner, the value
\* average_raw_region reports as R is the mean of the included samples at even
\* row and even column of the sensor array, G1 that of even row / odd column,
\* G2 that of odd row / even column and B that of odd row / odd column.
C25_PlanesByColourSite ==
    (op = "average_raw_region" /\ out.kind = "planes" /\ Len(img.shape) = 2)
    => /\ out.planes.R = MeanAt(ColourSite(0, 0))
       /\ out.planes.G1 = MeanAt(ColourSite(0, 1))
       /\ out.planes.G2 = MeanAt(ColourSite(1, 0))
       /\ out.planes.B = MeanAt(ColourSite(1, 1))

====
